---------------------------- MODULE Spec2Model ----------------------------
(***************************************************************************)
(* Blocks, reference chains and relocated ("dead") blocks of the constant  *)
(* interpreter: clang/lib/AST/Interp/InterpBlock.h.                        *)
(*                                                                         *)
(* The header declares Block and DeadBlock and defines the constructors,   *)
(* the accessors, invokeCtor and invokeDtor.  The out-of-line members      *)
(* (addPointer, removePointer, replacePointer, cleanup, the DeadBlock      *)
(* constructor, DeadBlock::free), the reference node (Pointer), the        *)
(* Descriptor and the driver (InterpState) are modelled from the design    *)
(* document.                                                               *)
(***************************************************************************)
EXTENDS Integers, Sequences, FiniteSets

\* Number of blocks the driver creates; each may be relocated once.
NumBlocks == 3
\* Number of reference nodes (Pointer objects).
NumPtrs == 3
\* Largest allocation, in bytes, whose every content is enumerated.
MaxAlloc == 2

\* nullptr
NULL == 0

BlockIds == 1 .. NumBlocks
\* The DeadBlock made from block b, and its embedded Block B, are DeadOf(b).
DeadIds == (NumBlocks + 1) .. (2 * NumBlocks)
AllBlocks == BlockIds \cup DeadIds
PtrIds == 1 .. NumPtrs

DeadOf(b) == b + NumBlocks

\* std::optional<unsigned>: <<>> is empty, <<v>> holds v.
NoDecl == << >>
\* (unsigned)n, a 32-bit value held as its two 16-bit halves.
UnsignedCast(n) == [hi |-> (n \div 65536) % 65536, lo |-> n % 65536]

\* Descriptors the driver allocates blocks for: the sizes of the metadata
\* and data regions, and whether the construct / destroy callbacks exist.
DescTable ==
  << [MetadataSize |-> 0, Size |-> 1, CtorFn |-> FALSE, DtorFn |-> FALSE,
      IsConst |-> FALSE, IsMutable |-> FALSE, IsTemporary |-> FALSE],
     [MetadataSize |-> 1, Size |-> 1, CtorFn |-> TRUE, DtorFn |-> TRUE,
      IsConst |-> TRUE, IsMutable |-> FALSE, IsTemporary |-> TRUE],
     [MetadataSize |-> 8, Size |-> 24, CtorFn |-> FALSE, DtorFn |-> FALSE,
      IsConst |-> FALSE, IsMutable |-> TRUE, IsTemporary |-> FALSE] >>

DescIds == 1 .. Len(DescTable)

getMetadataSize(d) == DescTable[d].MetadataSize
getDescSize(d) == DescTable[d].Size
\* Desc->getAllocSize(): the data size and the metadata size.
getAllocSize(d) == getMetadataSize(d) + getDescSize(d)

\* The descriptors of the blocks whose bytes are followed one by one.
SmallDescs == {d \in DescIds : getAllocSize(d) <= MaxAlloc}

\* The address the driver's allocator gives the Block object x.
AddressOf(x) == 64 * x

\* The byte pattern the interpreter stores.
Pattern == 170

Zeros(n) == [i \in 1 .. n |-> 0]

\* What freshly allocated storage of n bytes may hold, drawn from Junk.
Garbage(n, Junk) == [1 .. n -> Junk]

VARIABLES
  blocks,   \* the Block objects: header fields, and the bytes after the header
  ptrs,     \* the reference nodes (Pointer): Pointee, Prev, Next
  dead,     \* the DeadBlock objects: Prev, Next
  last,     \* the operation that led to this state
  Root      \* the driver's root of the DeadBlock list

vars == << blocks, ptrs, dead, Root, last >>

\* The heap the member functions read and write.
Heap == [blocks |-> blocks, ptrs |-> ptrs, dead |-> dead, Root |-> Root]

Commit(H) ==
  /\ blocks' = H.blocks
  /\ ptrs' = H.ptrs
  /\ dead' = H.dead
  /\ Root' = H.Root

\* No descriptor callback has run on the block.
NoCall == [fn |-> "none"]

\* No Block object at this address yet.
NoBlock ==
  [st |-> "none", Pointers |-> NULL, DeclID |-> NoDecl, IsStatic |-> FALSE,
   IsExtern |-> FALSE, IsDead |-> FALSE, IsInitialized |-> FALSE,
   Desc |-> NULL, mem |-> << >>, cb |-> NoCall]

\* A reference node that is not made yet; st becomes "attached", then "moved"
\* (its place was given to another node) or "gone" (it went away).
NoPtr == [st |-> "fresh", Pointee |-> NULL, Prev |-> NULL, Next |-> NULL]

NoDead == [Prev |-> NULL, Next |-> NULL, snap |-> << >>]

-----------------------------------------------------------------------------
\* Block: constructors.  The member defaults are Pointers = nullptr,
\* IsStatic = IsExtern = IsDead = IsInitialized = false, DeclID empty.

\* Block(DeclID, Desc, IsStatic, IsExtern)
Block_Decl(declID, desc, isStatic, isExtern, bytes) ==
  [NoBlock EXCEPT !.st = "live", !.DeclID = declID, !.IsStatic = isStatic,
                  !.IsExtern = isExtern, !.Desc = desc, !.mem = bytes]

\* As Block_Desc, but DeclID keeps its member default.
Block_Desc_EmptyDecl(desc, isStatic, isExtern, bytes) ==
  [NoBlock EXCEPT !.st = "live", !.IsStatic = isStatic, !.IsExtern = isExtern,
                  !.Desc = desc, !.mem = bytes]

\* Block(Desc, IsStatic, IsExtern)
Block_Desc(desc, isStatic, isExtern, bytes) ==
  [NoBlock EXCEPT !.st = "live", !.DeclID = << UnsignedCast(-1) >>,
                  !.IsStatic = isStatic, !.IsExtern = isExtern,
                  !.Desc = desc, !.mem = bytes]

\* As Block_Dead, but IsDead is the argument.
Block_Dead_ReadsFlag(desc, isExtern, isStatic, isDead, bytes) ==
  [NoBlock EXCEPT !.st = "live", !.IsStatic = isStatic, !.IsExtern = isExtern,
                  !.IsDead = isDead, !.Desc = desc, !.mem = bytes]

\* As Block_Dead, but IsDead keeps its member default.
Block_Dead_DefaultFlag(desc, isExtern, isStatic, isDead, bytes) ==
  [NoBlock EXCEPT !.st = "live", !.IsStatic = isStatic, !.IsExtern = isExtern,
                  !.Desc = desc, !.mem = bytes]

\* Block(Desc, IsExtern, IsStatic, IsDead): the argument IsDead is not read.
Block_Dead(desc, isExtern, isStatic, isDead, bytes) ==
  [NoBlock EXCEPT !.st = "live", !.IsStatic = isStatic, !.IsExtern = isExtern,
                  !.IsDead = TRUE, !.Desc = desc, !.mem = bytes]

-----------------------------------------------------------------------------
\* Block: accessors.  B is a Block object.

hasPointers_Inverted(B) == B.Pointers = NULL

hasPointers(B) == B.Pointers # NULL

isExtern(B) == B.IsExtern
isStatic(B) == B.IsStatic
isTemporary(B) == DescTable[B.Desc].IsTemporary
getSize(B) == getAllocSize(B.Desc)
getDeclID(B) == B.DeclID
isInitialized(B) == B.IsInitialized

\* The view starting right after the header.
rawData(B) == B.mem

\* The view starting after the metadata.
data(B) == SubSeq(rawData(B), getMetadataSize(B.Desc) + 1, Len(rawData(B)))

\* sizeof(Block) on an LP64 target: the chain head, the optional declaration
\* identity, the four flags with their padding, and the descriptor.
sizeofBlock == 32

\* As dataAt, but the metadata is not skipped.
dataAt_NoMetadata(This, B) == This + sizeofBlock

\* The address rawData() returns for the block at address This.
rawDataAt(This) == This + sizeofBlock

\* The address data() returns for the block B at address This.
dataAt(This, B) == rawDataAt(This) + getMetadataSize(B.Desc)

\* The descriptor's construct callback, external to the block: the model
\* records, as the last callback run on the block, what it was handed and
\* what it found in the block.
CtorFn(B, dataView, isConst, isMutable, isActive, desc) ==
  [B EXCEPT !.cb = [fn |-> "CtorFn", data |-> dataView, raw |-> rawData(B),
                    isConst |-> isConst, isMutable |-> isMutable,
                    isActive |-> isActive, init |-> B.IsInitialized]]

\* The descriptor's destroy callback.
DtorFn(B, dataView, desc) ==
  [B EXCEPT !.cb = [fn |-> "DtorFn", init |-> B.IsInitialized]]

\* As invokeCtor, but the bytes are zeroed after the construct callback ran.
invokeCtor_CallbackFirst(B) ==
  LET B1 == IF DescTable[B.Desc].CtorFn
            THEN CtorFn(B, data(B), DescTable[B.Desc].IsConst,
                        DescTable[B.Desc].IsMutable, TRUE, B.Desc)
            ELSE B
  IN  [B1 EXCEPT !.mem = Zeros(getAllocSize(B.Desc)), !.IsInitialized = TRUE]

\* As invokeCtor, but IsInitialized is not set.
invokeCtor_NoFlag(B) ==
  LET B1 == [B EXCEPT !.mem = Zeros(getAllocSize(B.Desc))]
  IN  IF DescTable[B.Desc].CtorFn
      THEN CtorFn(B1, data(B1), DescTable[B.Desc].IsConst,
                  DescTable[B.Desc].IsMutable, TRUE, B.Desc)
      ELSE B1

\* Block::invokeCtor
invokeCtor(B) ==
  LET B1 == [B EXCEPT !.mem = Zeros(getAllocSize(B.Desc))]
      B2 == IF DescTable[B.Desc].CtorFn
            THEN CtorFn(B1, data(B1), DescTable[B.Desc].IsConst,
                        DescTable[B.Desc].IsMutable, TRUE, B.Desc)
            ELSE B1
  IN  [B2 EXCEPT !.IsInitialized = TRUE]

\* As invokeDtor, but IsStatic is cleared as well.
invokeDtor_ClearsStatic(B) ==
  LET B1 == IF DescTable[B.Desc].DtorFn
            THEN DtorFn(B, data(B), B.Desc)
            ELSE B
  IN  [B1 EXCEPT !.IsInitialized = FALSE, !.IsStatic = FALSE]

\* As invokeDtor, but the bytes are zeroed as well.
invokeDtor_ZeroFills(B) ==
  LET B1 == IF DescTable[B.Desc].DtorFn
            THEN DtorFn(B, data(B), B.Desc)
            ELSE B
  IN  [B1 EXCEPT !.IsInitialized = FALSE,
                 !.mem = Zeros(getAllocSize(B.Desc))]

\* As invokeDtor, but the destroy callback is not called.
invokeDtor_SkipsDtorFn(B) == [B EXCEPT !.IsInitialized = FALSE]

\* As invokeDtor, but IsInitialized is not cleared.
invokeDtor_KeepsInitialized(B) ==
  IF DescTable[B.Desc].DtorFn THEN DtorFn(B, data(B), B.Desc) ELSE B

\* Block::invokeDtor
invokeDtor(B) ==
  LET B1 == IF DescTable[B.Desc].DtorFn
            THEN DtorFn(B, data(B), B.Desc)
            ELSE B
  IN  [B1 EXCEPT !.IsInitialized = FALSE]

-----------------------------------------------------------------------------
\* The chain of reference nodes.  H is a heap, x a block, P a node.

\* Block::addPointer: P becomes the head of x's chain.
addPointer(H, x, P) ==
  LET head == H.blocks[x].Pointers
      p1 == IF head # NULL THEN [H.ptrs EXCEPT ![head].Prev = P] ELSE H.ptrs
      p2 == [p1 EXCEPT ![P].Next = head, ![P].Prev = NULL]
  IN  [H EXCEPT !.ptrs = p2, !.blocks[x].Pointers = P]

\* Block::removePointer: P is unlinked from x's chain.
removePointer(H, x, P) ==
  LET nx == H.ptrs[P].Next
      pv == H.ptrs[P].Prev
      b1 == IF H.blocks[x].Pointers = P
            THEN [H.blocks EXCEPT ![x].Pointers = nx]
            ELSE H.blocks
      p1 == IF pv # NULL THEN [H.ptrs EXCEPT ![pv].Next = nx] ELSE H.ptrs
      p2 == IF nx # NULL THEN [p1 EXCEPT ![nx].Prev = pv] ELSE p1
      p3 == [p2 EXCEPT ![P].Prev = NULL, ![P].Next = NULL]
  IN  [H EXCEPT !.ptrs = p3, !.blocks = b1]

\* As replacePointer, but Old is removed and New added at the head.
replacePointer_AtHead(H, x, Old, New) ==
  addPointer(removePointer(H, x, Old), x, New)

\* Block::replacePointer: New takes the place of Old in x's chain.
replacePointer(H, x, Old, New) ==
  LET nx == H.ptrs[Old].Next
      pv == H.ptrs[Old].Prev
      p1 == IF pv # NULL THEN [H.ptrs EXCEPT ![pv].Next = New] ELSE H.ptrs
      p2 == IF nx # NULL THEN [p1 EXCEPT ![nx].Prev = New] ELSE p1
      p3 == [p2 EXCEPT ![New].Prev = pv, ![New].Next = nx,
                       ![Old].Prev = NULL, ![Old].Next = NULL]
      b1 == IF H.blocks[x].Pointers = Old
            THEN [H.blocks EXCEPT ![x].Pointers = New]
            ELSE H.blocks
  IN  [H EXCEPT !.ptrs = p3, !.blocks = b1]

\* The nodes reached from p along Next, at most n of them.
RECURSIVE Walk(_, _, _)
Walk(P, p, n) ==
  IF p = NULL \/ n = 0 THEN << >> ELSE << p >> \o Walk(P, P[p].Next, n - 1)

\* The chain of block x in heap H, from its head.
ChainIn(H, x) == Walk(H.ptrs, H.blocks[x].Pointers, NumPtrs + 1)

Range(s) == {s[i] : i \in 1 .. Len(s)}

-----------------------------------------------------------------------------
\* DeadBlock.

\* As DeadBlockCtor, but the reference nodes of Blk are left where they were.
DeadBlockCtor_NoTransfer(H, d, b) ==
  LET Blk == H.blocks[b]
      B == Block_Dead(Blk.Desc, Blk.IsStatic, Blk.IsExtern, TRUE, rawData(Blk))
      d1 == IF H.Root # NULL THEN [H.dead EXCEPT ![H.Root].Prev = d]
                             ELSE H.dead
      d2 == [d1 EXCEPT ![d] = [Prev |-> NULL, Next |-> H.Root,
                               snap |-> data(Blk)]]
  IN  [H EXCEPT !.blocks[d] = B, !.dead = d2, !.Root = d]

\* As DeadBlockCtor, but the root is left on the old head.
DeadBlockCtor_KeepsRoot(H, d, b) ==
  LET Blk == H.blocks[b]
      B == [Block_Dead(Blk.Desc, Blk.IsStatic, Blk.IsExtern, TRUE,
                       rawData(Blk))
              EXCEPT !.Pointers = Blk.Pointers]
      moved == Range(ChainIn(H, b))
      d1 == IF H.Root # NULL THEN [H.dead EXCEPT ![H.Root].Prev = d]
                             ELSE H.dead
      d2 == [d1 EXCEPT ![d] = [Prev |-> NULL, Next |-> H.Root,
                               snap |-> data(Blk)]]
      p1 == [p \in PtrIds |->
               IF p \in moved THEN [H.ptrs[p] EXCEPT !.Pointee = d]
                              ELSE H.ptrs[p]]
      b1 == [H.blocks EXCEPT ![d] = B, ![b].Pointers = NULL]
  IN  [blocks |-> b1, ptrs |-> p1, dead |-> d2,
       Root |-> IF H.Root # NULL THEN H.Root ELSE d]

\* As DeadBlockCtor, but the head of Blk's chain is left in Blk.
DeadBlockCtor_KeepsSourceChain(H, d, b) ==
  LET Blk == H.blocks[b]
      B == [Block_Dead(Blk.Desc, Blk.IsStatic, Blk.IsExtern, TRUE,
                       rawData(Blk))
              EXCEPT !.Pointers = Blk.Pointers]
      moved == Range(ChainIn(H, b))
      d1 == IF H.Root # NULL THEN [H.dead EXCEPT ![H.Root].Prev = d]
                             ELSE H.dead
      d2 == [d1 EXCEPT ![d] = [Prev |-> NULL, Next |-> H.Root,
                               snap |-> data(Blk)]]
      p1 == [p \in PtrIds |->
               IF p \in moved THEN [H.ptrs[p] EXCEPT !.Pointee = d]
                              ELSE H.ptrs[p]]
      b1 == [H.blocks EXCEPT ![d] = B]
  IN  [blocks |-> b1, ptrs |-> p1, dead |-> d2, Root |-> d]

\* DeadBlock::DeadBlock(Root, Blk): d is the new DeadBlock, b the block Blk.
\* The embedded block B is built by the dead-on-creation constructor and
\* holds a copy of the bytes; the node is linked at the head of the list and
\* every reference node of Blk is retargeted to B.
DeadBlockCtor(H, d, b) ==
  LET Blk == H.blocks[b]
      B == [Block_Dead(Blk.Desc, Blk.IsStatic, Blk.IsExtern, TRUE,
                       rawData(Blk))
              EXCEPT !.Pointers = Blk.Pointers]
      moved == Range(ChainIn(H, b))
      d1 == IF H.Root # NULL THEN [H.dead EXCEPT ![H.Root].Prev = d]
                             ELSE H.dead
      d2 == [d1 EXCEPT ![d] = [Prev |-> NULL, Next |-> H.Root,
                               snap |-> data(Blk)]]
      p1 == [p \in PtrIds |->
               IF p \in moved THEN [H.ptrs[p] EXCEPT !.Pointee = d]
                              ELSE H.ptrs[p]]
      b1 == [H.blocks EXCEPT ![d] = B, ![b].Pointers = NULL]
  IN  [blocks |-> b1, ptrs |-> p1, dead |-> d2, Root |-> d]

\* As DeadBlock_data, but the view starts at the metadata.
DeadBlock_data_Raw(D) == rawData(D)

\* DeadBlock::data: the data of the embedded block D.
DeadBlock_data(D) == data(D)

\* DeadBlock::rawData
DeadBlock_rawData(D) == rawData(D)

\* Storage handed back to its allocator; the header is kept as it was left.
Reclaim(B) == [B EXCEPT !.st = "freed", !.mem = << >>]

\* As DeadBlock_free, but the root is not moved when the head is released.
DeadBlock_free_KeepsRoot(H, d) ==
  LET nx == H.dead[d].Next
      pv == H.dead[d].Prev
      d1 == IF pv # NULL THEN [H.dead EXCEPT ![pv].Next = nx] ELSE H.dead
      d2 == IF nx # NULL THEN [d1 EXCEPT ![nx].Prev = pv] ELSE d1
  IN  [H EXCEPT !.dead = [d2 EXCEPT ![d].snap = << >>],
                !.blocks[d] = Reclaim(@)]

\* DeadBlock::free: d is unlinked from the list and its storage reclaimed.
\* The released node's own Prev and Next are left as they were.
DeadBlock_free(H, d) ==
  LET nx == H.dead[d].Next
      pv == H.dead[d].Prev
      d1 == IF pv # NULL THEN [H.dead EXCEPT ![pv].Next = nx] ELSE H.dead
      d2 == IF nx # NULL THEN [d1 EXCEPT ![nx].Prev = pv] ELSE d1
      r1 == IF H.Root = d THEN nx ELSE H.Root
  IN  [H EXCEPT !.dead = [d2 EXCEPT ![d].snap = << >>], !.Root = r1,
                !.blocks[d] = Reclaim(@)]

\* Block::cleanup: a dead block without references is destroyed and released.
cleanup(H, x) ==
  IF ~hasPointers(H.blocks[x]) /\ H.blocks[x].IsDead
  THEN DeadBlock_free([H EXCEPT !.blocks[x] = invokeDtor(@)], x)
  ELSE H

\* The driver's scope end for block b: relocated while references remain,
\* destroyed and freed otherwise.
deallocate(H, b) ==
  IF hasPointers(H.blocks[b])
  THEN LET H1 == DeadBlockCtor(H, DeadOf(b), b)
       IN  [H1 EXCEPT !.blocks[b] = Reclaim(@)]
  ELSE [H EXCEPT !.blocks[b] = Reclaim(invokeDtor(@))]

-----------------------------------------------------------------------------
\* The state after construction: no block, no reference, an empty list.
Init ==
  /\ blocks = [x \in AllBlocks |-> NoBlock]
  /\ ptrs = [p \in PtrIds |-> NoPtr]
  /\ dead = [d \in DeadIds |-> NoDead]
  /\ Root = NULL
  /\ last = "Init"

\* The driver allocates blocks at increasing addresses.
CanCreate(b) ==
  /\ blocks[b].st = "none"
  /\ \A c \in BlockIds : c < b => blocks[c].st # "none"

\* new Block(DeclID, Desc, IsStatic, IsExtern) on fresh storage holding g.
CreateBlock(b, declID, desc, stat, ext, g) ==
  /\ CanCreate(b)
  /\ blocks' = [blocks EXCEPT
                  ![b] = Block_Decl(declID, desc, stat, ext, g)]
  /\ UNCHANGED << ptrs, dead, Root >>
  /\ last' = "CreateBlock"

\* new Block(Desc, IsStatic, IsExtern) on fresh storage holding g.
CreateBlockDesc(b, desc, stat, ext, g) ==
  /\ CanCreate(b)
  /\ blocks' = [blocks EXCEPT
                  ![b] = Block_Desc(desc, stat, ext, g)]
  /\ UNCHANGED << ptrs, dead, Root >>
  /\ last' = "CreateBlockDesc"

\* The embedded block of a DeadBlock is made on zeroed storage by
\* Block(Desc, IsExtern, IsStatic, IsDead).
CreateBlockDead(d, desc, ext, stat, isDead) ==
  /\ blocks[d].st = "none"
  /\ blocks' = [blocks EXCEPT
                  ![d] = Block_Dead(desc, ext, stat, isDead,
                                    Zeros(getAllocSize(desc)))]
  /\ UNCHANGED << ptrs, dead, Root >>
  /\ last' = IF isDead THEN "CreateBlockDead(IsDead=true)"
                       ELSE "CreateBlockDead(IsDead=false)"

\* The driver makes a local: a block of descriptor desc, constructed at once.
NewLocal(b, desc) ==
  /\ CanCreate(b)
  /\ blocks' = [blocks EXCEPT
                  ![b] = invokeCtor(Block_Decl(NoDecl, desc, FALSE, FALSE,
                                               Zeros(getAllocSize(desc))))]
  /\ UNCHANGED << ptrs, dead, Root >>
  /\ last' = "NewLocal"

\* The driver constructs a block that is not constructed.
Construct(b) ==
  /\ blocks[b].st = "live"
  /\ ~blocks[b].IsInitialized
  /\ blocks' = [blocks EXCEPT ![b] = invokeCtor(@)]
  /\ UNCHANGED << ptrs, dead, Root >>
  /\ last' = "Construct"

\* The driver destroys a constructed block.
Destroy(b) ==
  /\ blocks[b].st = "live"
  /\ blocks[b].IsInitialized
  /\ blocks' = [blocks EXCEPT ![b] = invokeDtor(@)]
  /\ UNCHANGED << ptrs, dead, Root >>
  /\ last' = "Destroy"

\* The interpreter stores the pattern in byte i of the data of a live block.
Write(b, i) ==
  /\ blocks[b].st = "live"
  /\ i \in 1 .. getDescSize(blocks[b].Desc)
  /\ blocks' = [blocks EXCEPT
                  ![b].mem[getMetadataSize(blocks[b].Desc) + i] = Pattern]
  /\ UNCHANGED << ptrs, dead, Root >>
  /\ last' = "Write"

\* The driver makes reference nodes one after the other; none is made twice.
FreshPtr(p) ==
  /\ ptrs[p].st = "fresh"
  /\ \A q \in PtrIds : q < p => ptrs[q].st # "fresh"

\* A reference node is made for block x (original or embedded).
Attach(p, x) ==
  /\ FreshPtr(p)
  /\ blocks[x].st = "live"
  /\ Commit([addPointer(Heap, x, p) EXCEPT !.ptrs[p].Pointee = x,
                                           !.ptrs[p].st = "attached"])
  /\ last' = "Attach"

\* A reference node goes away: it leaves the chain, and its block is cleaned
\* up.
Detach(p) ==
  /\ ptrs[p].st = "attached"
  /\ LET x == ptrs[p].Pointee
         H1 == [removePointer(Heap, x, p) EXCEPT !.ptrs[p].Pointee = NULL,
                                                 !.ptrs[p].st = "gone"]
     IN  Commit(cleanup(H1, x))
  /\ last' = "Detach"

\* A reference node is moved: New is made in the place of Old.
Retarget(Old, New) ==
  /\ ptrs[Old].st = "attached"
  /\ FreshPtr(New)
  /\ LET x == ptrs[Old].Pointee
     IN  Commit([replacePointer(Heap, x, Old, New)
                   EXCEPT !.ptrs[New].Pointee = x,
                          !.ptrs[New].st = "attached",
                          !.ptrs[Old].Pointee = NULL,
                          !.ptrs[Old].st = "moved"])
  /\ last' = "Retarget"

\* The automatic lifetime of block b ends.
ScopeEnd(b) ==
  /\ blocks[b].st = "live"
  /\ Commit(deallocate(Heap, b))
  /\ last' = "ScopeEnd"

\* The chains and the DeadBlock list: several locals of one kind, the
\* references to them, and the ends of their scopes.
Next ==
  \/ \E b \in BlockIds : NewLocal(b, 2)
  \/ \E p \in PtrIds, x \in AllBlocks : Attach(p, x)
  \/ \E p \in PtrIds : Detach(p)
  \/ \E o \in PtrIds, n \in PtrIds : Retarget(o, n)
  \/ \E b \in BlockIds : ScopeEnd(b)

Spec == Init /\ [][Next]_vars

\* The declaration identities the driver creates blocks with.
DeclIDs == {NoDecl, << UnsignedCast(7) >>}

\* One block of every kind: its bytes, flags and callbacks.
NextOne ==
  \/ \E id \in DeclIDs, d \in SmallDescs, s \in BOOLEAN, e \in BOOLEAN :
       \E g \in Garbage(getAllocSize(d), {0, Pattern}) :
         CreateBlock(1, id, d, s, e, g)
  \/ \E d \in SmallDescs, s \in BOOLEAN, e \in BOOLEAN :
       \E g \in Garbage(getAllocSize(d), {0, Pattern}) :
         CreateBlockDesc(1, d, s, e, g)
  \/ Construct(1)
  \/ Destroy(1)
  \/ \E i \in 1 .. 2 : Write(1, i)
  \/ \E p \in PtrIds, x \in AllBlocks : Attach(p, x)
  \/ \E p \in PtrIds : Detach(p)
  \/ \E o \in PtrIds, n \in PtrIds : Retarget(o, n)
  \/ ScopeEnd(1)

SpecOne == Init /\ [][NextOne]_vars

\* The life of one block of either descriptor: made, constructed, destroyed,
\* referenced, and its scope ended.
NextLife ==
  \/ \E d \in SmallDescs :
       CreateBlock(1, NoDecl, d, FALSE, FALSE, Zeros(getAllocSize(d)))
  \/ Construct(1)
  \/ Destroy(1)
  \/ \E p \in PtrIds, x \in AllBlocks : Attach(p, x)
  \/ \E p \in PtrIds : Detach(p)
  \/ \E o \in PtrIds, n \in PtrIds : Retarget(o, n)
  \/ ScopeEnd(1)

\* A driver that ends the scope of the block in the end and makes every
\* attached reference go away in the end.
SpecLife ==
  /\ Init
  /\ [][NextLife]_vars
  /\ WF_vars(ScopeEnd(1))
  /\ \A p \in PtrIds : WF_vars(Detach(p))

\* The three constructors with every argument, on zeroed storage of every
\* descriptor, and the construction and destruction of what they make.
NextCtor ==
  \/ \E id \in DeclIDs, d \in DescIds, s \in BOOLEAN, e \in BOOLEAN :
       CreateBlock(1, id, d, s, e, Zeros(getAllocSize(d)))
  \/ \E d \in DescIds, s \in BOOLEAN, e \in BOOLEAN :
       CreateBlockDesc(1, d, s, e, Zeros(getAllocSize(d)))
  \/ \E d \in DescIds, e \in BOOLEAN, s \in BOOLEAN, k \in BOOLEAN :
       CreateBlockDead(DeadOf(1), d, e, s, k)
  \/ Construct(1)
  \/ Destroy(1)
  \/ \E d \in DescIds : Write(1, getDescSize(d))

SpecCtor == Init /\ [][NextCtor]_vars

-----------------------------------------------------------------------------
\* What the properties speak of.

\* The reference nodes that target block x.
Refs(x) == {p \in PtrIds : ptrs[p].Pointee = x}

\* The chain of block x, from its head.
Chain(x) == ChainIn(Heap, x)

\* The DeadBlocks reached from d along Next, at most n of them.
RECURSIVE WalkDead(_, _, _)
WalkDead(D, d, n) ==
  IF d = NULL \/ n = 0 THEN << >> ELSE << d >> \o WalkDead(D, D[d].Next, n - 1)

\* The driver's list, from its root.
DeadList == WalkDead(dead, Root, NumBlocks + 1)

\* The DeadBlocks that are not released.
LiveDead == {d \in DeadIds : blocks[d].st = "live"}

\* Block b was relocated in this step.
Relocated(b) ==
  /\ blocks[b].st = "live"
  /\ blocks[DeadOf(b)].st = "none"
  /\ blocks'[DeadOf(b)].st = "live"

\* DeadBlock d was released in this step.
Released(d) == blocks[d].st = "live" /\ blocks'[d].st = "freed"

-----------------------------------------------------------------------------
\* C1: for every block that exists, original or embedded, hasPointers() is
\* true exactly when some reference node is attached to the block, and the
\* chain read from the head holds exactly the attached nodes.
T_C1_HasPointersIffChainNonEmpty ==
  \A x \in AllBlocks :
    blocks[x].st = "live" =>
      /\ hasPointers(blocks[x]) <=> Refs(x) # {}
      /\ Range(Chain(x)) = Refs(x)
      /\ Len(Chain(x)) = Cardinality(Refs(x))

\* A reference has just gone away from an embedded block that keeps another,
\* a reference was moved before, and an original block has none.
W_C1_AfterAttachDetachRetarget ==
  /\ last = "Detach"
  /\ \E p \in PtrIds : ptrs[p].st = "moved"
  /\ \E d \in DeadIds : blocks[d].st = "live" /\ hasPointers(blocks[d])
  /\ \E b \in BlockIds : blocks[b].st = "live" /\ ~hasPointers(blocks[b])

\* C2: a step that relocates block b gives the embedded block the chain b
\* had, node for node in the same order, makes every one of these nodes
\* target the embedded block, and leaves no node that targets b.
T_C2_RelocationRetargetsEveryReference ==
  [][\A b \in BlockIds :
       Relocated(b) =>
         /\ ChainIn(Heap', DeadOf(b)) = Chain(b)
         /\ Len(Chain(b)) = Cardinality(Refs(b))
         /\ \A p \in Refs(b) : ptrs'[p].Pointee = DeadOf(b)
         /\ \A p \in PtrIds : ptrs'[p].Pointee # b]_vars

\* The last step relocated a block with at least two references: no block
\* was ever freed directly, and the head of the list holds two nodes or more.
W_C2_RelocatedWithTwoReferences ==
  /\ last = "ScopeEnd"
  /\ Root # NULL
  /\ Len(Chain(Root)) >= 2
  /\ \A b \in BlockIds :
       blocks[b].st = "freed" => blocks[DeadOf(b)].st # "none"

\* C3: while a relocated block is not released, the data seen through every
\* reference to it equals, byte for byte, the data the source block held
\* when it was relocated.
T_C3_RelocatedDataIsSourceData ==
  \A d \in DeadIds :
    blocks[d].st = "live" =>
      \A p \in Refs(d) :
        DeadBlock_data(blocks[ptrs[p].Pointee]) = dead[d].snap

\* A reference has just gone away from a relocated block with a metadata
\* region, whose source held the pattern; another reference is still there.
W_C3_SurvivingReferenceReadsPattern ==
  /\ last = "Detach"
  /\ \E d \in DeadIds :
       /\ blocks[d].st = "live"
       /\ Refs(d) # {}
       /\ getMetadataSize(blocks[d].Desc) > 0
       /\ \E i \in 1 .. Len(dead[d].snap) : dead[d].snap[i] = Pattern

\* C4: a step releases a relocated block only as its one remaining reference
\* goes away, which leaves the chain of its embedded block empty; a released
\* block has no reference, so none with a reference is ever released.
T_C4_ReleasedOnlyWithoutReferences ==
  [][\A d \in DeadIds :
       /\ Released(d) =>
            /\ blocks[d].IsDead
            /\ Cardinality(Refs(d)) = 1
            /\ last' = "Detach"
            /\ ChainIn(Heap', d) = << >>
       /\ blocks'[d].st = "freed" =>
            \A p \in PtrIds : ptrs'[p].Pointee # d]_vars

\* A relocated block was just released as the second of two references went
\* away, and no other block was relocated.
W_C4_ReleasedAfterLastDetach ==
  /\ last = "Detach"
  /\ Cardinality({p \in PtrIds : ptrs[p].st = "gone"}) >= 2
  /\ \E d \in DeadIds :
       /\ blocks[d].st = "freed"
       /\ \A e \in DeadIds \ {d} : blocks[e].st = "none"

\* C5: the driver's list is a well-formed doubly linked list of exactly the
\* relocated blocks that are not released: read from the root it holds each
\* of them once, the root is null exactly when none remains, the head has no
\* Prev, the tail has no Next, and the Prev of every successor is its
\* predecessor.
T_C5_DeadListWellFormed ==
  LET L == DeadList
  IN  /\ Range(L) = LiveDead
      /\ Len(L) = Cardinality(LiveDead)
      /\ (Root = NULL) <=> (LiveDead = {})
      /\ L # << >> => /\ dead[L[1]].Prev = NULL
                      /\ dead[L[Len(L)]].Next = NULL
      /\ \A i \in 1 .. Len(L) - 1 : dead[L[i + 1]].Prev = L[i]

\* A relocated block was just released from the middle of the list (it had a
\* Prev and a Next), and the two others remain.
W_C5_ReleasedFromTheMiddle ==
  /\ last = "Detach"
  /\ Len(DeadList) = 2
  /\ \E d \in DeadIds :
       /\ blocks[d].st = "freed"
       /\ dead[d].Prev # NULL
       /\ dead[d].Next # NULL

\* C6: isInitialized() is false on a block that was just created, true after
\* invokeCtor, false after invokeDtor, and left as it is by every step that
\* attaches, detaches or moves a reference or stores into the data.
T_C6_InitializedBetweenCtorAndDtor ==
  [][\A x \in AllBlocks :
       /\ (blocks[x].st = "none" /\ blocks'[x].st = "live") =>
            ~isInitialized(blocks'[x])
       /\ (x \in BlockIds /\ Construct(x)) => isInitialized(blocks'[x])
       /\ (x \in BlockIds /\ Destroy(x)) => ~isInitialized(blocks'[x])
       /\ (blocks[x].st = "live"
             /\ last' \in {"Attach", "Detach", "Retarget", "Write"}) =>
            isInitialized(blocks'[x]) = isInitialized(blocks[x])]_vars

\* The block was constructed and then destroyed while a reference was
\* attached to it: it is not initialized.
W_C6_DestroyedAfterConstruct ==
  /\ last = "Destroy"
  /\ blocks[1].st = "live"
  /\ Refs(1) # {}
  /\ ~isInitialized(blocks[1])

\* C7: a step that moves a reference from Old to New leaves the chain with
\* the same length, New where Old was, and every other node where it was.
T_C7_RetargetKeepsPositions ==
  [][\A o \in PtrIds, n \in PtrIds :
       Retarget(o, n) =>
         LET x == ptrs[o].Pointee
             c == Chain(x)
             c2 == ChainIn(Heap', x)
         IN  /\ o \in Range(c)
             /\ Len(c2) = Len(c)
             /\ \A i \in 1 .. Len(c) : c2[i] = IF c[i] = o THEN n ELSE c[i]
             /\ o \notin Range(c2)
             /\ ptrs'[o].Pointee # x
             /\ ptrs'[n].Pointee = x]_vars

\* The newest node is the last of a chain of two or more: as addPointer
\* links at the head, it got there by taking the place of another node.
W_C7_RetargetedBehindTheHead ==
  /\ last = "Retarget"
  /\ \E x \in AllBlocks :
       /\ blocks[x].st = "live"
       /\ Len(Chain(x)) >= 2
       /\ \A q \in PtrIds :
            ptrs[q].st # "fresh" => q <= Chain(x)[Len(Chain(x))]

\* C8: no step clears the dead flag of a block; a step sets it only on the
\* embedded block of the DeadBlock it makes; a block made by a public
\* constructor is never dead, an embedded block always is, and the block a
\* step relocates is not dead.
T_C8_DeadFlagMonotone ==
  [][\A x \in AllBlocks :
       /\ blocks[x].IsDead => blocks'[x].IsDead
       /\ (~blocks[x].IsDead /\ blocks'[x].IsDead) =>
            /\ x \in DeadIds
            /\ blocks[x].st = "none"
            /\ blocks'[x].st = "live"
       /\ (x \in BlockIds /\ blocks'[x].st # "none") => ~blocks'[x].IsDead
       /\ (x \in DeadIds /\ blocks'[x].st # "none") => blocks'[x].IsDead
       /\ (x \in BlockIds /\ Relocated(x)) => ~blocks[x].IsDead]_vars

\* A reference to a relocated block was moved: the embedded block is dead and
\* still referenced, and its source is reclaimed.
W_C8_DeadBlockStillReferenced ==
  /\ last = "Retarget"
  /\ blocks[1].st = "freed"
  /\ ~blocks[1].IsDead
  /\ blocks[DeadOf(1)].st = "live"
  /\ blocks[DeadOf(1)].IsDead
  /\ Refs(DeadOf(1)) # {}

\* The storage of block b and of its relocated copy, if any, is reclaimed.
Gone(b) ==
  /\ blocks[b].st = "freed"
  /\ blocks[DeadOf(b)].st # "live"

\* The object of block b was destroyed where it last lived: invokeDtor ran on
\* it, and the destroy callback, if the descriptor has one, was the last
\* callback to run on it.
Destructed(b) ==
  LET B == IF blocks[DeadOf(b)].st = "none" THEN blocks[b]
                                            ELSE blocks[DeadOf(b)]
  IN  /\ ~isInitialized(B)
      /\ DescTable[B.Desc].DtorFn => B.cb.fn = "DtorFn"

\* C9: when the driver ends the scope of the block in the end and every
\* reference goes away in the end, a constructed block is in the end
\* destroyed and its storage, relocated or not, reclaimed.
T_C9_ConstructedEventuallyDestructed ==
  (blocks[1].st = "live" /\ isInitialized(blocks[1]))
    ~> (Gone(1) /\ Destructed(1))

\* A constructed block with a destroy callback was relocated, and released as
\* its last reference went away: the callback ran on the embedded block, not
\* on the source.
W_C9_DestructedAfterRelocation ==
  /\ last = "Detach"
  /\ Gone(1)
  /\ Destructed(1)
  /\ isInitialized(blocks[1])
  /\ blocks[1].cb.fn = "CtorFn"
  /\ blocks[DeadOf(1)].cb.fn = "DtorFn"

\* C10: the scope end of a block without references destroys and frees it
\* and makes no DeadBlock; the scope end of a block with references
\* relocates it.  Every DeadBlock of the list has a reference, and nothing
\* changes in a freed block or targets it.
T_C10_ScopeEndFreesOrRelocates ==
  [][/\ \A b \in BlockIds :
          (blocks[b].st = "live" /\ blocks'[b].st # "live") =>
            /\ last' = "ScopeEnd"
            /\ blocks'[b].st = "freed"
            /\ IF Refs(b) = {}
               THEN /\ blocks'[DeadOf(b)].st = "none"
                    /\ blocks'[b].cb.fn = "DtorFn"
                    /\ ~isInitialized(blocks'[b])
                    /\ dead' = dead
                    /\ Root' = Root
               ELSE /\ Relocated(b)
                    /\ Root' = DeadOf(b)
     /\ \A b \in BlockIds :
          (last' = "ScopeEnd" /\ blocks'[b] # blocks[b]) =>
            /\ blocks[b].st = "live"
            /\ blocks'[b].st = "freed"
     /\ \A d \in DeadIds :
          blocks'[d].st = "live" =>
            /\ Refs(d)' # {}
            /\ d \in Range(DeadList')
     /\ \A x \in AllBlocks :
          blocks[x].st = "freed" =>
            /\ blocks'[x] = blocks[x]
            /\ Refs(x)' = {}
            /\ x \in DeadIds => dead'[x] = dead[x]]_vars

\* The last scope end freed a block without references directly, after
\* another block was relocated, which is still referenced.
W_C10_FreedDirectlyAndRelocated ==
  /\ last = "ScopeEnd"
  /\ \E b \in BlockIds :
       /\ blocks[b].st = "freed"
       /\ blocks[DeadOf(b)].st = "none"
       /\ blocks[b].cb.fn = "DtorFn"
  /\ \E d \in DeadIds : blocks[d].st = "live" /\ Refs(d) # {}

\* C11: the scope end of a block without references that is not initialized
\* (it never received invokeCtor, or was destroyed since) runs no descriptor
\* callback on it: the last callback run on the block stays what it was.
CE_C11_ScopeEndRunsNoDtorFnUnconstructed ==
  [][\A b \in BlockIds :
       (/\ last' = "ScopeEnd"
        /\ blocks[b].st = "live"
        /\ blocks'[b].st = "freed"
        /\ ~isInitialized(blocks[b])) =>
         blocks'[b].cb = blocks[b].cb]_vars

\* C12: isStatic() and isExtern() of a block made by a public constructor
\* are the arguments it was made with, and no step changes isStatic() or
\* isExtern() of a block that exists before and after it.
T_C12_StorageClassFlagsFixed ==
  [][/\ \A id \in DeclIDs, d \in SmallDescs, s \in BOOLEAN, e \in BOOLEAN :
          \A g \in Garbage(getAllocSize(d), {0, Pattern}) :
            (CreateBlock(1, id, d, s, e, g) \/ CreateBlockDesc(1, d, s, e, g))
              => /\ isStatic(blocks'[1]) = s
                 /\ isExtern(blocks'[1]) = e
     /\ \A x \in AllBlocks :
          (blocks[x].st = "live" /\ blocks'[x].st = "live") =>
            /\ isStatic(blocks'[x]) = isStatic(blocks[x])
            /\ isExtern(blocks'[x]) = isExtern(blocks[x])]_vars

\* A static block that is not extern was constructed and destroyed, after a
\* reference to it was attached, moved, and detached.
W_C12_StaticNotExternAfterEveryOperation ==
  /\ last = "Destroy"
  /\ blocks[1].st = "live"
  /\ isStatic(blocks[1])
  /\ ~isExtern(blocks[1])
  /\ blocks[1].cb.fn = "DtorFn"
  /\ \E p \in PtrIds : ptrs[p].st = "moved"
  /\ \E p \in PtrIds : ptrs[p].st = "gone"

\* C13 as stated: without a construct callback invokeCtor changes nothing but
\* the initialized flag, and without a destroy callback invokeDtor changes
\* nothing but the initialized flag.
CE_C13_NoCallbackOnlyFlipsFlag ==
  [][/\ (last' = "Construct" /\ ~DescTable[blocks[1].Desc].CtorFn) =>
          /\ blocks' = [blocks EXCEPT ![1].IsInitialized = TRUE]
          /\ UNCHANGED << ptrs, dead, Root >>
     /\ (last' = "Destroy" /\ ~DescTable[blocks[1].Desc].DtorFn) =>
          /\ blocks' = [blocks EXCEPT ![1].IsInitialized = FALSE]
          /\ UNCHANGED << ptrs, dead, Root >>]_vars

\* C13: without a construct callback invokeCtor changes nothing but the
\* initialized flag and the bytes after the header, which become zero (so
\* nothing but the flag when they were zero); without a destroy callback
\* invokeDtor changes nothing but the initialized flag.  The other flags, the
\* identity, the chain and every other object are left as they were.
T_C13_NoCallbackFlipsFlagAndZeroFills ==
  [][/\ (last' = "Construct" /\ ~DescTable[blocks[1].Desc].CtorFn) =>
          /\ blocks' = [blocks EXCEPT
                          ![1].IsInitialized = TRUE,
                          ![1].mem = Zeros(getAllocSize(blocks[1].Desc))]
          /\ UNCHANGED << ptrs, dead, Root >>
     /\ (last' = "Destroy" /\ ~DescTable[blocks[1].Desc].DtorFn) =>
          /\ blocks' = [blocks EXCEPT ![1].IsInitialized = FALSE]
          /\ UNCHANGED << ptrs, dead, Root >>]_vars

\* A referenced block without callbacks was constructed and then destroyed:
\* the pattern stored in between is still in its data, and no callback ran.
W_C13_DestroyedWithoutCallbackKeepsBytes ==
  /\ last = "Destroy"
  /\ blocks[1].st = "live"
  /\ ~DescTable[blocks[1].Desc].CtorFn
  /\ ~DescTable[blocks[1].Desc].DtorFn
  /\ blocks[1].cb = NoCall
  /\ data(blocks[1])[1] = Pattern
  /\ Refs(1) # {}

\* C15: invokeCtor zeroes all getAllocSize() bytes after the header, then
\* runs the construct callback, if the descriptor has one, with isActive
\* true and the descriptor's const and mutable flags, and then sets the
\* initialized flag: the callback finds metadata and data zeroed and the
\* block not initialized; without a callback every byte is zero afterwards,
\* whatever the storage held.
T_C15_ZeroFillThenCallbackThenFlag ==
  [][last' = "Construct" =>
       LET B == blocks[1]
           C == blocks'[1]
           D == DescTable[B.Desc]
       IN  /\ isInitialized(C)
           /\ Len(rawData(C)) = getAllocSize(B.Desc)
           /\ IF D.CtorFn
              THEN /\ C.cb.fn = "CtorFn"
                   /\ C.cb.raw = Zeros(getAllocSize(B.Desc))
                   /\ C.cb.data = Zeros(getDescSize(B.Desc))
                   /\ C.cb.isActive
                   /\ C.cb.isConst = D.IsConst
                   /\ C.cb.isMutable = D.IsMutable
                   /\ ~C.cb.init
              ELSE /\ C.cb = B.cb
                   /\ \A i \in 1 .. getAllocSize(B.Desc) : rawData(C)[i] = 0]_vars

\* A referenced block with a metadata region and a construct callback was
\* just constructed: the callback was the last to run, on zeroed bytes.
W_C15_ConstructedOnZeroedBytes ==
  /\ last = "Construct"
  /\ blocks[1].st = "live"
  /\ Refs(1) # {}
  /\ isInitialized(blocks[1])
  /\ blocks[1].cb.fn = "CtorFn"
  /\ blocks[1].cb.raw = Zeros(getAllocSize(blocks[1].Desc))
  /\ getMetadataSize(blocks[1].Desc) > 0

\* C14: for the block of every descriptor, at every address, rawData() is
\* the address right after the header and data() is rawData() plus the
\* descriptor's metadata size; the view of rawData() has getSize() bytes,
\* getSize() is the metadata size plus the data size, and byte i of data()
\* is byte metadata size + i of rawData().  Metadata size 8 and data size 24
\* give getSize() 32 and data() 8 past rawData().
T_C14_DataIsRawDataPlusMetadataSize ==
  \A x \in AllBlocks :
    blocks[x].st = "live" =>
      LET B == blocks[x]
          This == AddressOf(x)
          md == getMetadataSize(B.Desc)
          sz == getDescSize(B.Desc)
      IN  /\ rawDataAt(This) = This + sizeofBlock
          /\ dataAt(This, B) = rawDataAt(This) + md
          /\ getSize(B) = md + sz
          /\ Len(rawData(B)) = getSize(B)
          /\ Len(data(B)) = sz
          /\ \A i \in 1 .. sz : data(B)[i] = rawData(B)[md + i]
          /\ (md = 8 /\ sz = 24) =>
               /\ getSize(B) = 32
               /\ dataAt(This, B) - rawDataAt(This) = 8

\* A block of metadata size 8 and data size 24 holds the pattern in the last
\* byte of its data, which is byte 32 after the header.
W_C14_Metadata8Data24 ==
  /\ last = "Write"
  /\ blocks[1].st = "live"
  /\ getMetadataSize(blocks[1].Desc) = 8
  /\ getDescSize(blocks[1].Desc) = 24
  /\ getSize(blocks[1]) = 32
  /\ data(blocks[1])[24] = Pattern
  /\ rawData(blocks[1])[32] = Pattern

\* C16: a step that relocates a block puts its DeadBlock at the head of the
\* list, before the others in the order they had, and makes it the root; a
\* step that releases a DeadBlock takes it out and leaves the others in the
\* order they had; no other step changes the list.  So the list, read from
\* the root, goes from the most recently relocated block to the least
\* recently relocated one.
T_C16_ListOrderedByRelocation ==
  [][LET moved == {b \in BlockIds : Relocated(b)}
         freed == {d \in DeadIds : Released(d)}
     IN  /\ \A b \in moved :
              /\ DeadList' = << DeadOf(b) >> \o DeadList
              /\ Root' = DeadOf(b)
              /\ freed = {}
         /\ \A d \in freed :
              /\ d \in Range(DeadList)
              /\ DeadList' = SelectSeq(DeadList, LAMBDA e : e # d)
         /\ (moved = {} /\ freed = {}) => DeadList' = DeadList]_vars

\* Three blocks were relocated and one of their DeadBlocks was released; the
\* last step was a relocation, and the list holds the two that remain.
W_C16_RelocatedAfterRelease ==
  /\ last = "ScopeEnd"
  /\ Len(DeadList) = 2
  /\ \E d \in DeadIds : blocks[d].st = "freed"
  /\ \A b \in BlockIds : blocks[b].st = "freed"

\* C17: every reference node is in the chain of at most one block, and at
\* most once in it: an attached node is in the chain of the block it
\* targets and of no other, a node that is not attached is in none, no chain
\* holds a node twice, and a block that was relocated or freed has no chain.
T_C17_NodeInAtMostOneChain ==
  /\ \A p \in PtrIds :
       LET in == {x \in AllBlocks :
                   blocks[x].st # "none" /\ p \in Range(Chain(x))}
       IN  IF ptrs[p].st = "attached"
           THEN in = {ptrs[p].Pointee}
           ELSE in = {}
  /\ \A x \in AllBlocks :
       /\ blocks[x].st # "none" =>
            Len(Chain(x)) = Cardinality(Range(Chain(x)))
       /\ blocks[x].st = "freed" => Chain(x) = << >>

\* A block with two references was just relocated while another block keeps
\* a reference of its own.
W_C17_TwoChainsAfterRelocation ==
  /\ last = "ScopeEnd"
  /\ Root # NULL
  /\ Len(Chain(Root)) = 2
  /\ \E b \in BlockIds : blocks[b].st = "live" /\ Len(Chain(b)) = 1

\* C18: the embedded block of a relocated block reports the isStatic() and
\* the isExtern() of the source block, whatever the two flags are.
CE_C18_EmbeddedFlagsEqualSourceFlags ==
  [][\A b \in BlockIds :
       Relocated(b) =>
         /\ isStatic(blocks'[DeadOf(b)]) = isStatic(blocks[b])
         /\ isExtern(blocks'[DeadOf(b)]) = isExtern(blocks[b])]_vars

\* C19: the dead-on-creation constructor makes a dead block whether its
\* IsDead argument is true or false, and a block that any of the three
\* constructors has just made has no reference chain and is not
\* initialized.
T_C19_DeadWhateverTheArgument ==
  [][/\ \A d \in DescIds, e \in BOOLEAN, s \in BOOLEAN, k \in BOOLEAN :
          CreateBlockDead(DeadOf(1), d, e, s, k) =>
            /\ blocks'[DeadOf(1)].IsDead
            /\ blocks'[1] = blocks[1]
     /\ \A x \in AllBlocks :
          (blocks[x].st = "none" /\ blocks'[x].st = "live") =>
            /\ ~hasPointers(blocks'[x])
            /\ ~isInitialized(blocks'[x])
            /\ blocks'[x].IsDead <=> x \in DeadIds]_vars

\* The dead-on-creation constructor was just called with IsDead false, next
\* to a block of a public constructor that is constructed: the new block
\* is dead, without references and not initialized.
W_C19_DeadThoughArgumentFalse ==
  /\ last = "CreateBlockDead(IsDead=false)"
  /\ blocks[DeadOf(1)].st = "live"
  /\ blocks[DeadOf(1)].IsDead
  /\ ~hasPointers(blocks[DeadOf(1)])
  /\ ~isInitialized(blocks[DeadOf(1)])
  /\ blocks[1].st = "live"
  /\ isInitialized(blocks[1])
  /\ ~blocks[1].IsDead

\* C20: getDeclID() of a block made by Block(DeclID, Desc, ...) is the
\* DeclID argument, empty or not; of a block made by Block(Desc, ...) it is
\* the value 2^32 - 1, whose two 16-bit halves are 65535; of an embedded
\* block it is empty; and no step changes getDeclID() of a block that
\* exists before and after it.
T_C20_DeclIDFixedAtCreation ==
  [][/\ \A id \in DeclIDs, d \in SmallDescs, s \in BOOLEAN, e \in BOOLEAN :
          \A g \in Garbage(getAllocSize(d), {0, Pattern}) :
            /\ CreateBlock(1, id, d, s, e, g) => getDeclID(blocks'[1]) = id
            /\ CreateBlockDesc(1, d, s, e, g) =>
                 getDeclID(blocks'[1]) = << [hi |-> 65535, lo |-> 65535] >>
     /\ \A x \in DeadIds :
          (blocks[x].st = "none" /\ blocks'[x].st = "live") =>
            getDeclID(blocks'[x]) = NoDecl
     /\ \A x \in AllBlocks :
          (blocks[x].st = "live" /\ blocks'[x].st = "live") =>
            getDeclID(blocks'[x]) = getDeclID(blocks[x])]_vars

\* A block made by Block(Desc, ...) was constructed and relocated, and a
\* reference to its embedded block was moved: the embedded block has no
\* identity, the source had 2^32 - 1.
W_C20_RelocatedDescOnlyBlock ==
  /\ last = "Retarget"
  /\ blocks[1].st = "freed"
  /\ blocks[1].cb.fn = "CtorFn"
  /\ getDeclID(blocks[1]) = << [hi |-> 65535, lo |-> 65535] >>
  /\ blocks[DeadOf(1)].st = "live"
  /\ getDeclID(blocks[DeadOf(1)]) = NoDecl

=============================================================================
